---- MODULE Spec2Model ----
(***************************************************************************)
(* Model of demo/csrc/cpp/text_ocr.cxx: main() of the OCR demo.            *)
(* The program is sequential; pc is the position of main, one action per   *)
(* statement.  The SDK (Context, Profiler, TextDetector, TextRecognizer)   *)
(* and OpenCV (imread, polylines, imwrite) are the environment: their      *)
(* results are drawn from small sets.  log is the sequence of external     *)
(* calls made so far.                                                      *)
(***************************************************************************)
EXTENDS Integers, Sequences, FiniteSets, TLC

\* ---- bounds of the model ----
MaxArgc == 6
MaxBoxes == 2
MaxVertices == 2
MaxLog == 80

\* ---- program constants ----
ExpectedArgc == 5
WarmupCount == 20
DeviceIndex == 0

VARIABLES pc, argc, img, loaded, context, detector, recognizer,
          wi, bboxes, texts, oi, pj, poly_points,
          stdout, stderr, exitCode, written, log, detRet, recArg, applyImgs,
          ubRead

vars == <<pc, argc, img, loaded, context, detector, recognizer,
          wi, bboxes, texts, oi, pj, poly_points,
          stdout, stderr, exitCode, written, log, detRet, recArg, applyImgs,
          ubRead>>

SeqsUpTo(S, n) == UNION {[1..k -> S] : k \in 0..n}

\* coordinates are in hundredths of a pixel
Points == << [x |-> 250, y |-> -150], [x |-> 1099, y |-> 75] >>

\* a detected box: its bbox is a non-empty array of vertices; the sample
\* boxes start at either point and alternate between the two
Boxes ==
  {[j \in 1..k |-> Points[((s + j) % 2) + 1]] : s \in 0..1, k \in 1..MaxVertices}

\* what detector.Apply may return
DetResults == SeqsUpTo(Boxes, MaxBoxes)

Texts == {"hello", "world"}

\* what recognizer.Apply may return; the program does not constrain its length
RecResults == SeqsUpTo(Texts, MaxBoxes + 1)

\* what a read past the end of texts may yield
Garbage == {"garbage"}

\* argv[k]
Argv(k) ==
  CASE k = 0 -> "ocr"
    [] k = 1 -> "device_name"
    [] k = 2 -> "det_model_path"
    [] k = 3 -> "reg_model_path"
    [] k = 4 -> "image_path"
    [] OTHER -> "extra"

NoImage == [src |-> "none", data |-> FALSE, polys |-> <<>>]
NoObject == [made |-> FALSE]

\* (int)pt.x : truncation toward zero
IntCast(c) == IF c >= 0 THEN c \div 100 ELSE -((-c) \div 100)

\* "%.2f" of a coordinate: sign, integer part, two decimals
Fmt2(c) ==
  LET a == IF c >= 0 THEN c ELSE -c
  IN  [neg |-> c < 0, ip |-> a \div 100, fp |-> a % 100]

\* record one external call
Record(e) == IF Len(log) < MaxLog THEN Append(log, e) ELSE log

\* ---- conditions of main ----
\* mutant: the guard written as argc < 5
ArgcBad_less(n) == n < ExpectedArgc

ArgcBad(n) == n # ExpectedArgc

\* mutant: the guard written as if (img.data)
ImgEmpty_inverted(im) == im.data

ImgEmpty(im) == ~im.data

\* mutant: the loop test written as i <= 20
WarmupCond_le(i) == i <= WarmupCount

WarmupCond(i) == i < WarmupCount

\* mutant: the loop never advances i
WarmupStep_stuck(i) == i

WarmupStep(i) == i + 1

OutCond(i, bs) == i < Len(bs)

OutStep(i) == i + 1

\* the index used in texts[i]
\* mutant: texts[0] printed for every box
TextIndex_first(i) == 0

TextIndex(i) == i

\* mutant: the span built with size() - 1
SpanOf_short(bs) == SubSeq(bs, 1, Len(bs) - 1)

\* the span {bboxes.begin(), bboxes.size()} handed to recognizer.Apply
SpanOf(bs) == SubSeq(bs, 1, Len(bs))

\* mutant: the detector built from argv[3]
DetModelPath_swapped == Argv(3)

DetModelPath == Argv(2)

RegModelPath == Argv(3)

DeviceName == Argv(1)

ImagePath == Argv(4)

\* mutant: polylines called with isClosed = false
Polygon_open(pts) == [pts |-> pts, closed |-> FALSE]

\* the closed polygon cv::polylines draws
Polygon(pts) == [pts |-> pts, closed |-> TRUE]

Init ==
  /\ pc = "check_argc"
  /\ argc \in 0..MaxArgc
  /\ img = NoImage
  /\ loaded = NoImage
  /\ context = NoObject
  /\ detector = NoObject
  /\ recognizer = NoObject
  /\ wi = 0
  /\ bboxes = <<>>
  /\ texts = <<>>
  /\ oi = 0
  /\ pj = 0
  /\ poly_points = <<>>
  /\ stdout = <<>>
  /\ stderr = <<>>
  /\ exitCode = -1
  /\ written = <<>>
  /\ log = <<>>
  /\ detRet = <<>>
  /\ recArg = <<>>
  /\ applyImgs = {}
  /\ ubRead = FALSE

\* lines 10-13
CheckArgc ==
  /\ pc = "check_argc"
  /\ IF ArgcBad(argc)
       THEN /\ stderr' = Append(stderr, <<"usage">>)
            /\ exitCode' = 1
            /\ pc' = "done"
       ELSE /\ pc' = "imread"
            /\ UNCHANGED <<stderr, exitCode>>
  /\ UNCHANGED <<argc, img, loaded, context, detector, recognizer, wi, bboxes,
                 texts, oi, pj, poly_points, stdout, log, detRet, recArg,
                 applyImgs, ubRead, written>>

\* line 18
Imread ==
  /\ pc = "imread"
  /\ \E d \in BOOLEAN :
       /\ img' = [src |-> ImagePath, data |-> d, polys |-> <<>>]
       /\ loaded' = img'
  /\ log' = Record("imread")
  /\ pc' = "check_img"
  /\ UNCHANGED <<argc, context, detector, recognizer, wi, bboxes, texts, oi,
                 pj, poly_points, stdout, stderr, exitCode, detRet, recArg,
                 applyImgs, ubRead, written>>

\* lines 19-22
CheckImg ==
  /\ pc = "check_img"
  /\ IF ImgEmpty(img)
       THEN /\ stderr' = Append(stderr, <<"failed to load image", ImagePath>>)
            /\ exitCode' = 1
            /\ pc' = "done"
       ELSE /\ pc' = "context"
            /\ UNCHANGED <<stderr, exitCode>>
  /\ UNCHANGED <<argc, img, loaded, context, detector, recognizer, wi, bboxes,
                 texts, oi, pj, poly_points, stdout, log, detRet, recArg,
                 applyImgs, ubRead, written>>

\* line 26
MakeContext ==
  /\ pc = "context"
  /\ context' = [made |-> TRUE, device |-> DeviceName, index |-> DeviceIndex,
                 profilers |-> <<>>]
  /\ log' = Record("Context")
  /\ pc' = "profiler"
  /\ UNCHANGED <<argc, img, loaded, detector, recognizer, wi, bboxes, texts,
                 oi, pj, poly_points, stdout, stderr, exitCode, detRet, recArg,
                 applyImgs, ubRead, written>>

\* line 27
MakeProfiler ==
  /\ pc = "profiler"
  /\ log' = Record("Profiler")
  /\ pc' = "add_profiler"
  /\ UNCHANGED <<argc, img, loaded, context, detector, recognizer, wi, bboxes,
                 texts, oi, pj, poly_points, stdout, stderr, exitCode, detRet,
                 recArg, applyImgs, ubRead, written>>

\* line 28
AddProfiler ==
  /\ pc = "add_profiler"
  /\ context' = [context EXCEPT !.profilers = Append(@, "/deploee-tmp/profile.bin")]
  /\ log' = Record("Add")
  /\ pc' = "detector"
  /\ UNCHANGED <<argc, img, loaded, detector, recognizer, wi, bboxes, texts,
                 oi, pj, poly_points, stdout, stderr, exitCode, detRet, recArg,
                 applyImgs, ubRead, written>>

\* line 30
MakeDetector ==
  /\ pc = "detector"
  /\ detector' = [made |-> TRUE, model |-> DetModelPath, context |-> context]
  /\ log' = Record("TextDetector")
  /\ pc' = "recognizer"
  /\ UNCHANGED <<argc, img, loaded, context, recognizer, wi, bboxes, texts,
                 oi, pj, poly_points, stdout, stderr, exitCode, detRet, recArg,
                 applyImgs, ubRead, written>>

\* line 31
MakeRecognizer ==
  /\ pc = "recognizer"
  /\ recognizer' = [made |-> TRUE, model |-> RegModelPath, context |-> context]
  /\ log' = Record("TextRecognizer")
  /\ pc' = "warm_test"
  /\ UNCHANGED <<argc, img, loaded, context, detector, wi, bboxes, texts,
                 oi, pj, poly_points, stdout, stderr, exitCode, detRet, recArg,
                 applyImgs, ubRead, written>>

\* line 33: the loop test of the warm-up loop
WarmTest ==
  /\ pc = "warm_test"
  /\ pc' = IF WarmupCond(wi) THEN "warm_det" ELSE "final_det"
  /\ UNCHANGED <<argc, img, loaded, context, detector, recognizer, wi, bboxes,
                 texts, oi, pj, poly_points, stdout, stderr, exitCode, log,
                 detRet, recArg, applyImgs, ubRead, written>>

\* line 34
WarmDet ==
  /\ pc = "warm_det"
  /\ \E r \in DetResults :
       /\ bboxes' = r
       /\ detRet' = r
  /\ recArg' = <<>>
  /\ applyImgs' = applyImgs \cup {img}
  /\ log' = Record("det")
  /\ pc' = "warm_rec"
  /\ UNCHANGED <<argc, img, loaded, context, detector, recognizer, wi, texts,
                 oi, pj, poly_points, stdout, stderr, exitCode, ubRead,
                 written>>

\* line 35, the end of the loop body (the loop's bboxes goes out of scope)
\* and ++i
WarmRec ==
  /\ pc = "warm_rec"
  /\ \E t \in RecResults : TRUE
  /\ recArg' = SpanOf(bboxes)
  /\ applyImgs' = applyImgs \cup {img}
  /\ log' = Record("rec")
  /\ bboxes' = <<>>
  /\ wi' = WarmupStep(wi)
  /\ pc' = "warm_test"
  /\ UNCHANGED <<argc, img, loaded, context, detector, recognizer, texts,
                 oi, pj, poly_points, stdout, stderr, exitCode, detRet, ubRead,
                 written>>

\* line 38
FinalDet ==
  /\ pc = "final_det"
  /\ \E r \in DetResults :
       /\ bboxes' = r
       /\ detRet' = r
  /\ recArg' = <<>>
  /\ applyImgs' = applyImgs \cup {img}
  /\ log' = Record("det")
  /\ pc' = "final_rec"
  /\ UNCHANGED <<argc, img, loaded, context, detector, recognizer, wi, texts,
                 oi, pj, poly_points, stdout, stderr, exitCode, ubRead,
                 written>>

\* line 39
FinalRec ==
  /\ pc = "final_rec"
  /\ \E t \in RecResults : texts' = t
  /\ recArg' = SpanOf(bboxes)
  /\ applyImgs' = applyImgs \cup {img}
  /\ log' = Record("rec")
  /\ oi' = 0
  /\ pc' = "out_test"
  /\ UNCHANGED <<argc, img, loaded, context, detector, recognizer, wi, bboxes,
                 pj, poly_points, stdout, stderr, exitCode, detRet, ubRead,
                 written>>

\* line 41: the loop test of the output loop
OutTest ==
  /\ pc = "out_test"
  /\ pc' = IF OutCond(oi, bboxes) THEN "print_box" ELSE "imwrite"
  /\ UNCHANGED <<argc, img, loaded, context, detector, recognizer, wi, bboxes,
                 texts, oi, pj, poly_points, stdout, stderr, exitCode, log,
                 detRet, recArg, applyImgs, ubRead, written>>

\* lines 42-43, texts[i] inside texts
PrintBox ==
  /\ pc = "print_box"
  /\ TextIndex(oi) < Len(texts)
  /\ stdout' = Append(stdout, <<"box", oi, texts[TextIndex(oi) + 1]>>)
  /\ poly_points' = <<>>
  /\ pj' = 0
  /\ pc' = "points"
  /\ UNCHANGED <<argc, img, loaded, context, detector, recognizer, wi, bboxes,
                 texts, oi, stderr, exitCode, log, detRet, recArg, applyImgs,
                 ubRead, written>>

\* lines 42-43, texts[i] past the end of texts: the read is undefined.
\* texts[i].text is then whatever lies behind the results, and fprintf either
\* prints it and returns, or faults on it and never returns
PrintBoxPastEnd ==
  /\ pc = "print_box"
  /\ ~(TextIndex(oi) < Len(texts))
  /\ ubRead' = TRUE
  /\ \/ /\ \E g \in Garbage : stdout' = Append(stdout, <<"box", oi, g>>)
        /\ poly_points' = <<>>
        /\ pj' = 0
        /\ pc' = "points"
     \/ /\ pc' = "fault"
        /\ UNCHANGED <<stdout, poly_points, pj>>
  /\ UNCHANGED <<argc, img, loaded, context, detector, recognizer, wi, bboxes,
                 texts, oi, stderr, exitCode, log, detRet, recArg, applyImgs,
                 written>>

\* lines 44-47: one step of the range-for over bboxes[i].bbox
PointStep ==
  /\ pc = "points"
  /\ IF pj < Len(bboxes[oi + 1])
       THEN LET pt == bboxes[oi + 1][pj + 1]
            IN  /\ stdout' = Append(stdout, <<"pt", Fmt2(pt.x), Fmt2(pt.y)>>)
                /\ poly_points' = Append(poly_points,
                                         <<IntCast(pt.x), IntCast(pt.y)>>)
                /\ pj' = pj + 1
                /\ pc' = "points"
       ELSE /\ pc' = "newline"
            /\ UNCHANGED <<stdout, poly_points, pj>>
  /\ UNCHANGED <<argc, img, loaded, context, detector, recognizer, wi, bboxes,
                 texts, oi, stderr, exitCode, log, detRet, recArg, applyImgs,
                 ubRead, written>>

\* line 48
Newline ==
  /\ pc = "newline"
  /\ stdout' = Append(stdout, <<"nl">>)
  /\ pc' = "polylines"
  /\ UNCHANGED <<argc, img, loaded, context, detector, recognizer, wi, bboxes,
                 texts, oi, pj, poly_points, stderr, exitCode, log, detRet,
                 recArg, applyImgs, ubRead, written>>

\* mutant: the box is recognized again after it has been drawn
Polylines_thenApply ==
  /\ pc = "polylines"
  /\ img' = [img EXCEPT !.polys = Append(@, Polygon(poly_points))]
  /\ log' = Record("polylines")
  /\ applyImgs' = applyImgs \cup {img'}
  /\ oi' = OutStep(oi)
  /\ pc' = "out_test"
  /\ UNCHANGED <<argc, loaded, context, detector, recognizer, wi, bboxes,
                 texts, pj, poly_points, stdout, stderr, exitCode, detRet,
                 recArg, ubRead, written>>

\* line 49, and ++i
Polylines ==
  /\ pc = "polylines"
  /\ img' = [img EXCEPT !.polys = Append(@, Polygon(poly_points))]
  /\ log' = Record("polylines")
  /\ oi' = OutStep(oi)
  /\ pc' = "out_test"
  /\ UNCHANGED <<argc, loaded, context, detector, recognizer, wi, bboxes,
                 texts, pj, poly_points, stdout, stderr, exitCode, detRet,
                 recArg, applyImgs, ubRead, written>>

\* mutant: a failed imwrite ends the program with exit code 1
Imwrite_checked ==
  /\ pc = "imwrite"
  /\ log' = Record("imwrite")
  /\ \E ok \in BOOLEAN :
       IF ok
         THEN /\ written' = Append(written,
                                   [name |-> "output_ocr.png", img |-> img])
              /\ pc' = "return0"
              /\ UNCHANGED exitCode
         ELSE /\ written' = written
              /\ exitCode' = 1
              /\ pc' = "done"
  /\ UNCHANGED <<argc, img, loaded, context, detector, recognizer, wi, bboxes,
                 texts, oi, pj, poly_points, stdout, stderr, detRet,
                 recArg, applyImgs, ubRead>>

\* line 52: the result of imwrite is dropped
Imwrite ==
  /\ pc = "imwrite"
  /\ \E ok \in BOOLEAN :
       written' = IF ok
                    THEN Append(written, [name |-> "output_ocr.png", img |-> img])
                    ELSE written
  /\ log' = Record("imwrite")
  /\ pc' = "return0"
  /\ UNCHANGED <<argc, img, loaded, context, detector, recognizer, wi, bboxes,
                 texts, oi, pj, poly_points, stdout, stderr, exitCode, detRet,
                 recArg, applyImgs, ubRead>>

\* line 54
Return0 ==
  /\ pc = "return0"
  /\ exitCode' = 0
  /\ pc' = "done"
  /\ UNCHANGED <<argc, img, loaded, context, detector, recognizer, wi, bboxes,
                 texts, oi, pj, poly_points, stdout, stderr, log, detRet,
                 recArg, applyImgs, ubRead, written>>

Next ==
  \/ CheckArgc
  \/ Imread
  \/ CheckImg
  \/ MakeContext
  \/ MakeProfiler
  \/ AddProfiler
  \/ MakeDetector
  \/ MakeRecognizer
  \/ WarmTest
  \/ WarmDet
  \/ WarmRec
  \/ FinalDet
  \/ FinalRec
  \/ OutTest
  \/ PrintBox
  \/ PrintBoxPastEnd
  \/ PointStep
  \/ Newline
  \/ Polylines
  \/ Imwrite
  \/ Return0

Spec == Init /\ [][Next]_vars

\* main is a single sequential thread: it keeps running until it returns
FairSpec == Spec /\ WF_vars(Next)

TypeOK ==
  /\ pc \in {"check_argc", "imread", "check_img", "context", "profiler",
             "add_profiler", "detector", "recognizer", "warm_test", "warm_det",
             "warm_rec", "final_det", "final_rec", "out_test", "print_box",
             "points", "newline", "polylines", "imwrite", "return0", "done",
             "fault"}
  /\ argc \in 0..MaxArgc
  /\ wi \in 0..WarmupCount
  /\ bboxes \in DetResults
  /\ texts \in RecResults
  /\ oi \in 0..MaxBoxes
  /\ exitCode \in {-1, 0, 1}
  /\ Len(log) < MaxLog

\* ---------------------------------------------------------------------
\* Properties
\* ---------------------------------------------------------------------

\* number of calls of e made so far
Count(e) == Cardinality({k \in 1..Len(log) : log[k] = e})

\* the detector.Apply / recognizer.Apply calls made so far, in order
Applies == SelectSeq(log, LAMBDA e : e \in {"det", "rec"})

\* the "box[i]: text" lines written so far, in order
BoxLines == SelectSeq(stdout, LAMBDA l : l[1] = "box")

NothingCreated ==
  /\ context = NoObject
  /\ detector = NoObject
  /\ recognizer = NoObject
  /\ Count("Context") = 0
  /\ Count("Profiler") = 0
  /\ Count("TextDetector") = 0
  /\ Count("TextRecognizer") = 0
  /\ Count("det") = 0
  /\ Count("rec") = 0
  /\ stdout = <<>>
  /\ written = <<>>
  /\ Count("imwrite") = 0

\* main has passed both guard checks
PassedGuards ==
  /\ argc = 5
  /\ loaded.data
  /\ pc \notin {"check_argc", "imread", "check_img"}

\* C1: with an argument count other than 5 main prints the usage message to
\* stderr and returns 1; no image is loaded, no SDK object is created, no
\* Apply call is made, nothing goes to stdout and no file is written.
C1_BadArgcExits ==
  argc # 5 =>
    /\ pc \in {"check_argc", "done"}
    /\ log = <<>>
    /\ img = NoImage
    /\ NothingCreated
    /\ pc = "done" => (exitCode = 1 /\ stderr = << <<"usage">> >>)

C1_Witness == argc > 5 /\ pc = "done" /\ exitCode = 1

\* C2: with 5 arguments and an image without data main prints
\* "failed to load image: <image_path>" to stderr and returns 1; no SDK object
\* is created, no Apply call is made, nothing goes to stdout and no file is
\* written.
C2_LoadFailureExits ==
  (argc = 5 /\ pc \notin {"check_argc", "imread"} /\ ~loaded.data) =>
    /\ pc \in {"check_img", "done"}
    /\ log = <<"imread">>
    /\ NothingCreated
    /\ pc = "done" =>
         (exitCode = 1 /\
          stderr = << <<"failed to load image", "image_path">> >>)

C2_Witness ==
  argc = 5 /\ ~loaded.data /\ pc = "done" /\ exitCode = 1 /\ Len(stderr) = 1

\* C3: every recognizer.Apply is immediately preceded by a detector.Apply on
\* the same image, and the boxes handed to it are exactly the boxes that
\* detector.Apply returned.
C3_DetectThenRecognize ==
  /\ \A k \in 1..Len(Applies) :
       Applies[k] = "rec" => (k > 1 /\ Applies[k - 1] = "det")
  /\ \A k \in 1..Len(log) :
       log[k] = "rec" => (k > 1 /\ log[k - 1] = "det")
  /\ (Len(Applies) > 0 /\ Applies[Len(Applies)] = "rec") => recArg = detRet
  /\ Cardinality(applyImgs) <= 1

C3_Witness ==
  /\ PassedGuards
  /\ pc = "out_test"
  /\ Len(detRet) = 2
  /\ detRet[1] # detRet[2]
  /\ recArg = detRet

\* C4: the warm-up loop makes exactly 20 detect-then-recognize iterations that
\* print and draw nothing, then one more inference follows: detector.Apply and
\* recognizer.Apply are each called exactly 21 times whatever was detected.
C4_WarmupThenOnce ==
  /\ pc \in {"warm_test", "warm_det"} =>
       (Count("det") = wi /\ Count("rec") = wi)
  /\ pc = "warm_rec" => (Count("det") = wi + 1 /\ Count("rec") = wi)
  /\ pc \in {"warm_test", "warm_det", "warm_rec", "final_det", "final_rec"} =>
       (stdout = <<>> /\ img = loaded /\ Count("polylines") = 0)
  /\ pc = "final_det" => (Count("det") = 20 /\ Count("rec") = 20)
  /\ pc = "final_rec" => (Count("det") = 21 /\ Count("rec") = 20)
  /\ (PassedGuards /\
      pc \in {"out_test", "print_box", "points", "newline", "polylines",
              "imwrite", "return0", "done", "fault"}) =>
       (Count("det") = 21 /\ Count("rec") = 21)

C4_Witness ==
  /\ pc = "done"
  /\ exitCode = 0
  /\ Count("det") = 21
  /\ Count("rec") = 21
  /\ Len(bboxes) = 2

\* C5: main returns 1 exactly when a guard check fired; otherwise it returns 0
\* after exactly one imwrite of output_ocr.png, whose result is not looked at,
\* also when no box was detected.
C5_ExitCodes ==
  /\ Count("imwrite") <= 1
  /\ \A k \in 1..Len(written) : written[k].name = "output_ocr.png"
  /\ pc = "done" =>
       /\ exitCode \in {0, 1}
       /\ exitCode = 1 <=> (argc # 5 \/ ~loaded.data)
       /\ exitCode = 0 =>
            (Count("imwrite") = 1 /\ log[Len(log)] = "imwrite")

C5_Witness ==
  /\ pc = "done"
  /\ exitCode = 0
  /\ bboxes = <<>>
  /\ written = <<>>
  /\ Count("imwrite") = 1

\* what the output loop writes for box k (1-based) when its text is t
BoxOut(k, t) ==
  << <<"box", k - 1, t>> >>
  \o [j \in 1..Len(bboxes[k]) |->
        <<"pt", Fmt2(bboxes[k][j].x), Fmt2(bboxes[k][j].y)>>]
  \o << <<"nl">> >>

\* the polygon of box k
BoxPoly(k) ==
  [pts |-> [j \in 1..Len(bboxes[k]) |->
              <<IntCast(bboxes[k][j].x), IntCast(bboxes[k][j].y)>>],
   closed |-> TRUE]

RECURSIVE ExpectedOut(_)
ExpectedOut(k) ==
  IF k = 0 THEN <<>>
  ELSE ExpectedOut(k - 1) \o BoxOut(k, BoxLines[k][3])

\* C6: the output loop visits the boxes 0..n-1 in order, once each; for box i
\* it writes the box line, one pair per vertex in vertex order and a newline,
\* then draws one closed polygon from the same vertices; n polygons are drawn
\* and the image is written only after all of them.
C6_OutputLoop ==
  /\ \A k \in 1..Len(BoxLines) :
       /\ BoxLines[k][2] = k - 1
       /\ k <= Len(texts) => BoxLines[k][3] = texts[k]
  /\ pc = "out_test" =>
       /\ oi <= Len(bboxes)
       /\ Len(BoxLines) = oi
       /\ stdout = ExpectedOut(oi)
       /\ img.polys = [k \in 1..oi |-> BoxPoly(k)]
  /\ pc = "polylines" =>
       /\ Len(BoxLines) = oi + 1
       /\ stdout = ExpectedOut(oi + 1)
       /\ poly_points = BoxPoly(oi + 1).pts
       /\ img.polys = [k \in 1..oi |-> BoxPoly(k)]
  /\ pc \in {"imwrite", "return0"} \/ (pc = "done" /\ exitCode = 0) =>
       /\ Len(BoxLines) = Len(bboxes)
       /\ stdout = ExpectedOut(Len(bboxes))
       /\ img.polys = [k \in 1..Len(bboxes) |-> BoxPoly(k)]
       /\ Count("polylines") = Len(bboxes)
  /\ \A k \in 1..Len(written) :
       written[k].img.polys = [m \in 1..Len(bboxes) |-> BoxPoly(m)]
  /\ \A k \in 1..Len(log) :
       log[k] = "imwrite" => \A m \in k + 1..Len(log) : log[m] # "polylines"

C6_Witness ==
  /\ pc = "done"
  /\ exitCode = 0
  /\ Len(bboxes) = 2
  /\ Len(bboxes[1]) = 2
  /\ bboxes[1][1] # bboxes[1][2]
  /\ Len(written) = 1
  /\ Len(img.polys) = 2

\* C7: every run of main reaches a return, provided every external call
\* returns; the one call that may not return is the fprintf of a text read
\* past the end of texts, which needs fewer recognized texts than boxes.
C7_Terminates ==
  <>(\/ pc = "done" /\ exitCode \in {0, 1}
     \/ pc = "fault" /\ ubRead /\ Len(texts) < Len(bboxes))

C7_Witness ==
  /\ pc = "done"
  /\ exitCode = 0
  /\ Count("det") = 21
  /\ Len(img.polys) = 2

\* C8: texts[i] is read for every box index without a length check; a read is
\* past the end only when the recognizer returned fewer results than boxes,
\* and with one result per box every read is inside texts and box i is
\* printed with the text recognized for box i.
C8_TextReads ==
  /\ ubRead => Len(texts) < Len(bboxes)
  /\ pc = "fault" => ubRead
  /\ Len(texts) >= Len(bboxes) => (~ubRead /\ pc # "fault")
  /\ ~ubRead =>
       \A k \in 1..Len(BoxLines) :
         (k <= Len(texts) /\ BoxLines[k] = <<"box", k - 1, texts[k]>>)
  /\ (Len(texts) = Len(bboxes) /\ pc \in {"imwrite", "return0", "done"}
      /\ PassedGuards) =>
       BoxLines = [k \in 1..Len(bboxes) |-> <<"box", k - 1, texts[k]>>]

C8_Witness ==
  /\ pc = "done"
  /\ Len(bboxes) = 2
  /\ Len(texts) = 2
  /\ texts[1] # texts[2]
  /\ Len(BoxLines) = 2

\* C8, second half: without one result per box a read past the end of texts
\* is reachable
C8_PastEndReached ==
  /\ ubRead
  /\ Len(texts) < Len(bboxes)
  /\ pc \in {"points", "fault"}

\* C9: the image is not changed between imread and the end of the last
\* recognizer.Apply: every Apply call gets the image as loaded, and every
\* polylines call comes after the last Apply call.
C9_InferenceSeesLoadedImage ==
  /\ applyImgs \subseteq {loaded}
  /\ loaded.polys = <<>>
  /\ Count("polylines") = 0 => img = loaded
  /\ \A k \in 1..Len(log) :
       log[k] = "polylines" =>
         \A m \in k + 1..Len(log) : log[m] \notin {"det", "rec"}

C9_Witness ==
  /\ pc = "done"
  /\ exitCode = 0
  /\ Count("polylines") = 2
  /\ applyImgs = {loaded}
  /\ img # loaded

\* the setup calls in the order main makes them
SetupOrder ==
  <<"imread", "Context", "Profiler", "Add", "TextDetector", "TextRecognizer">>

\* C10: after the guards the setup runs in a fixed order before any
\* inference: imread, Context for device 0 of the named device, Profiler added
\* to it, then the TextDetector (argv[2]) and the TextRecognizer (argv[3])
\* built from that one Context.
C10_SetupOrder ==
  /\ \A k \in 1..Len(log) : k <= 6 => log[k] = SetupOrder[k]
  /\ \A k \in 1..Len(log) : log[k] \in {"det", "rec"} => k > 6
  /\ context.made =>
       (context.device = "device_name" /\ context.index = 0)
  /\ detector.made =>
       /\ detector.model = "det_model_path"
       /\ detector.context = context
       /\ detector.context.profilers = <<"/deploee-tmp/profile.bin">>
  /\ recognizer.made =>
       /\ recognizer.model = "reg_model_path"
       /\ recognizer.context = context
       /\ recognizer.context = detector.context
  /\ Count("det") > 0 => (detector.made /\ recognizer.made)

C10_Witness ==
  /\ pc = "warm_det"
  /\ wi = 0
  /\ detector.made
  /\ recognizer.made
  /\ log = SetupOrder

====
